---- MODULE Spec2Model ----
(***************************************************************************)
(* Model of the HallOfFame server: the pixel store (Pixel table), the      *)
(* pixel history (PixelHistory table), the payment gateway's intents, the  *)
(* WebSocket broadcast, and the route handlers of routes/payments.js and   *)
(* routes/pixels.js.  A handler is a sequence of steps separated by the    *)
(* awaits of its code; steps of different handlers interleave.  Reads that *)
(* follow one another are taken in one step, and so are a findOrCreate and *)
(* the write that follows it, since that write does not depend on the row  *)
(* that was read.                                                          *)
(*                                                                         *)
(* Money is counted in thousandths of a dollar, so that the epsilon 0.001  *)
(* of routes/pixels.js and the cent rounding of the payment amount are     *)
(* both integers.  Time is counted in days.                                *)
(***************************************************************************)
EXTENDS Integers, Sequences, FiniteSets, Bags, TLC

\* ---------------------------------------------------------------- bounds
MaxRequests == 2      \* settlement requests received in one behaviour
MaxQuotes   == 1      \* quote requests received in one behaviour
MaxTicks    == 1      \* advances of the clock
MaxHttp     == 2      \* HTTP requests for the configuration in one behaviour

\* ------------------------------------------------------- program constants
minPrice     == 1000  \* PIXEL_CONFIG.minPrice: $1 floor price and increment
epsilon      == 1     \* 0.001 dollars
SecurityDays == 7     \* securityExpiresAt.setDate(getDate() + 7)
NullDate     == -1    \* a null DATE column
NoPrice      == -1    \* no row, hence no stored price
ProtectionMultiplier == 10   \* a protected pixel is offered at price * 10

\* ------------------------------------------------------------ input sets
Cells        == {<<0, 1>>, <<1, 1>>, <<2, 1>>}
Owners       == {"a", "b"}
PriceInputs  == {1000, 2000, 10000}
NoLink       == "null"
NoIntent     == 0

\* each buyer sends one ownerName, one color and one link with every request
NameOf(o)  == IF o = "a" THEN "Ann" ELSE IF o = "b" THEN "Bob" ELSE ""
ColorOf(o) == IF o = "a" THEN "red" ELSE IF o = "b" THEN "blue" ELSE ""
LinkOf(o)  == IF o = "a" THEN "url" ELSE NoLink

\* the request bodies sent to POST /api/pixels for the pixel at (1, 1): buyer a
\* places it at the floor price, buyer b bids more and asks for protection
\* with the highest bid
PostBodies ==
  {b \in [cell : {<<1, 1>>}, price : PriceInputs, ownerId : Owners, withSecurity : BOOLEAN] :
     \/ b.ownerId = "a" /\ b.price = minPrice
     \/ b.ownerId = "b" /\ b.price # minPrice /\ (b.withSecurity <=> b.price = 10000)}

\* the request bodies sent to POST /api/payments/create-payment-intent: the
\* quotes are buyer b's; price 0 and ownerId "" stand for a missing field
QuoteBodies ==
  {b \in [cell : {<<1, 1>>}, price : {0, 1000, 2000}, ownerId : {"b", ""}] :
     b.ownerId = "" => b.price = minPrice}

\* the request bodies sent to POST /api/pixels/payment-success: buyer b reports
\* a payment for the pixel at (1, 1); id 0 stands for a missing id
PaymentBodies ==
  {b \in [id : 0..1, amount : {200}, status : {"succeeded", "processing"},
          cell : {<<1, 1>>}, ownerId : {"b"}] :
     b.id = 0 => b.status = "succeeded"}

\* the pixels of a bulk request: buyer a proposes pixels at the floor price
BulkPixel(c, ws) == [cell |-> c, color |-> "red", price |-> minPrice, withSecurity |-> ws]

\* the request bodies sent to POST /api/payments/create-bulk-payment-intent
BulkBodies ==
  {b \in [pixels : {<<>>, <<BulkPixel(<<0, 1>>, FALSE)>>,
                     <<BulkPixel(<<1, 1>>, FALSE)>>, <<BulkPixel(<<1, 1>>, TRUE)>>,
                     <<BulkPixel(<<1, 1>>, FALSE), BulkPixel(<<2, 1>>, FALSE)>>},
           totalAmount : {1000, 2000}, ownerId : {"a", ""}] :
     /\ b.ownerId = "" => b.pixels = <<BulkPixel(<<1, 1>>, FALSE)>> /\ b.totalAmount = 1000
     /\ b.totalAmount = 2000 => Len(b.pixels) # 1 \/ b.pixels[1].withSecurity}

VARIABLES
  pixels,    \* Pixel table: a function from the coordinates of the stored rows
  history,   \* PixelHistory table: the sequence of rows in insertion order
  intents,   \* the gateway's payment intents; an intent's id is its index
  reqs,      \* bag of the handler invocations that are waiting at an await
  sent,      \* messages sent to the open WebSocket clients, in sending order
  now,       \* the clock (new Date())
  nreq,      \* number of settlement requests received so far
  nquote,    \* number of quote requests received so far
  last       \* the handler that took the last step and, when it responded, its status

\* the client's WebSocketService and ConfigService
VARIABLES
  thisWs,             \* this.ws: "null" or "socket", the socket connect() created last
  socket,             \* readyState of the socket connect() created last
  reconnectAttempts,  \* this.reconnectAttempts
  reconnectTimeout,   \* this.reconnectTimeout, in ms
  timer,              \* delay of the pending setTimeout(() => this.connect()), 0 for none
  disconnected,       \* disconnect() has been called
  config,             \* this.config: 0 for null, else the response object it refers to
  configPromise,      \* this.configPromise: 0 for null, else the promise it refers to
  promises,           \* the promises getConfig created, in creation order; promise n
                      \* wraps HTTP request n, whose response.data is object n
  callers             \* for each caller of getConfig: where it is and what it received

clientVars == <<thisWs, socket, reconnectAttempts, reconnectTimeout, timer, disconnected,
                config, configPromise, promises, callers>>

vars == <<pixels, history, intents, reqs, sent, now, nreq, nquote, last, clientVars>>

\* ------------------------------------------------------------- conversions
\* Math.round(priceNum * 100): thousandths of a dollar to cents
ToCents(p) == (p + 5) \div 10

\* paymentIntent.amount / 100: cents to thousandths of a dollar
FromCents(a) == a * 10

\* ------------------------------------------------------------------ store
Exists(c) == c \in DOMAIN pixels

\* a protection check that still protects at the instant of expiry
IsSecuredNowInclusive(row, t) ==
  row.isSecured /\ row.securityExpiresAt # NullDate /\ row.securityExpiresAt >= t

\* existingPixel.isSecured && existingPixel.securityExpiresAt > now
IsSecuredNow(row, t) ==
  row.isSecured /\ row.securityExpiresAt # NullDate /\ row.securityExpiresAt > t

\* securityExpiresAt = new Date(); setDate(getDate() + 7), or null
ExpiryFor(withSecurity, t) == IF withSecurity THEN t + SecurityDays ELSE NullDate

\* a write that leaves the written row as the only row of the table
PutAlone(c, row) == [d \in {c} |-> row]

\* the table with the row at c inserted or replaced
Put(c, row) == [d \in DOMAIN pixels \cup {c} |-> IF d = c THEN row ELSE pixels[d]]

\* a handler invocation waiting at an await; seen is the price the handler
\* found stored when findOne read the cell (NoPrice for an absent cell)
Req(kind, pc, cell, color, price, ownerId, ownerName, link, ws, pi) ==
  [kind |-> kind, pc |-> pc, cell |-> cell, color |-> color,
   price |-> price, ownerId |-> ownerId, ownerName |-> ownerName,
   link |-> link, withSecurity |-> ws, pi |-> pi,
   securityExpiresAt |-> NullDate, lastUpdated |-> NullDate, snap |-> <<>>,
   seen |-> IF Exists(cell) THEN pixels[cell].price ELSE NoPrice]

\* the bag of waiting handlers when r starts, finishes, or moves on as q
Start(r)       == reqs (+) SetToBag({r})
Finish(r)      == reqs (-) SetToBag({r})
Continue(r, q) == (reqs (-) SetToBag({r})) (+) SetToBag({q})

\* label of a handler step: status 0 while the handler has not responded
\* and the cell and price (and, for the webhook, the event type) of its
\* request; message is the message of a 400 response and body the number a
\* GET route answers with
Step(kind, pi, status, event, cell, price) ==
  [kind |-> kind, pi |-> pi, status |-> status, event |-> event,
   cell |-> cell, price |-> price, message |-> "", body |-> NoPrice]

\* a step that is not a handler's
Idle == Step("none", NoIntent, 0, "", <<0, 0>>, 0)

\* the callers of getConfig: PixelCanvas loadConfig calls the three together
Callers == {"getMinPrice", "getMaxPixels", "getProcessingFee"}

\* a caller that has not called getConfig
NotCalled == [pc |-> "idle", promise |-> 0, value |-> 0]

\* the client after the module is loaded: new WebSocketService() has called
\* connect(), and ConfigService.getInstance() holds neither config nor promise
ClientInit ==
  /\ thisWs = "socket"
  /\ socket = "CONNECTING"
  /\ reconnectAttempts = 0
  /\ reconnectTimeout = 1000
  /\ timer = 0
  /\ disconnected = FALSE
  /\ config = 0
  /\ configPromise = 0
  /\ promises = <<>>
  /\ callers = [c \in Callers |-> NotCalled]

Init ==
  /\ pixels = <<>>
  /\ history = <<>>
  /\ intents = <<>>
  /\ reqs = EmptyBag
  /\ sent = <<>>
  /\ now = 0
  /\ nreq = 0
  /\ nquote = 0
  /\ last = Idle
  /\ ClientInit

\* ------------------------------------------------------------------ clock
\* SecurityDays pass while no request is being handled
Tick ==
  /\ reqs = EmptyBag
  /\ now + SecurityDays <= MaxTicks * SecurityDays
  /\ now' = now + SecurityDays
  /\ last' = Idle
  /\ UNCHANGED <<pixels, history, intents, reqs, sent, nreq, nquote, clientVars>>

\* ---------------------------------------------------------------- gateway
\* the buyer pays: the intent reaches its terminal status succeeded
GatewaySucceed(i) ==
  /\ i \in DOMAIN intents
  /\ intents[i].status = "requires_payment_method"
  /\ intents' = [intents EXCEPT ![i].status = "succeeded"]
  /\ last' = Idle
  /\ UNCHANGED <<pixels, history, reqs, sent, now, nreq, nquote, clientVars>>

\* the event types the gateway has emitted for intent i; each can be
\* delivered to the webhook any number of times
EventsOf(i) ==
  {"payment_intent.created", "payment_intent.payment_failed"}
    \cup (IF intents[i].status = "succeeded" THEN {"payment_intent.succeeded"} ELSE {})

\* a payment intent as the gateway stores it: amount in cents, the metadata
\* the quote attached to it, its status, and whether a delivery of its
\* succeeded event has been acknowledged
Intent(bulk, amount, cell, color, ownerId, ownerName, pixelCount, ws) ==
  [bulk |-> bulk, amount |-> amount, cell |-> cell, color |-> color,
   ownerId |-> ownerId, ownerName |-> ownerName, pixelCount |-> pixelCount,
   withSecurity |-> ws, status |-> "requires_payment_method", delivered |-> FALSE]

\* the gateway's intents once the delivery of an event of intent i has been
\* answered res.json({received: true})
Acknowledged(i, type) ==
  IF type = "payment_intent.succeeded"
  THEN [intents EXCEPT ![i].delivered = TRUE]
  ELSE intents

\* ------------------------------------------- POST /api/payments/create-payment-intent
\* existingPixel.price + PIXEL_CONFIG.minPrice, or PIXEL_CONFIG.minPrice for an
\* absent cell: the minimumBid both quote handlers compute and return
MinimumBid(c) == IF Exists(c) THEN pixels[c].price + minPrice ELSE minPrice

\* message of the 400 response of the single-cell quote's validation, "" when
\* the request passes it
QuoteMessage(c, color, price, ownerId) ==
  IF color = "" \/ ownerId = "" \/ price = 0 THEN "Missing required fields"
  ELSE IF price <= 0 THEN "Invalid price"
  ELSE IF Exists(c) /\ price < pixels[c].price + minPrice THEN "Bid too low"
  ELSE IF ~Exists(c) /\ price < minPrice THEN "Bid too low"
  ELSE ""

\* a quote that opens the intent without validating the request
QuoteStatusUnchecked(c, color, price, ownerId, stripeOk) ==
  IF ~stripeOk THEN 500 ELSE 200

\* status the single-cell quote responds with; 200 when the intent is opened
QuoteStatus(c, color, price, ownerId, stripeOk) ==
  IF QuoteMessage(c, color, price, ownerId) # "" THEN 400
  ELSE IF ~stripeOk THEN 500                                 \* gateway error
  ELSE 200

\* a quote that reserved the cell for the buyer when it opened the intent
CreatePaymentIntentReserving(c, color, price, ownerId, ownerName, stripeOk) ==
  LET status == QuoteStatus(c, color, price, ownerId, stripeOk) IN
  /\ nquote < MaxQuotes
  /\ nquote' = nquote + 1
  /\ intents' = IF status = 200
                THEN Append(intents, Intent(FALSE, ToCents(price), c, color,
                                            ownerId, ownerName, 0, FALSE))
                ELSE intents
  /\ pixels' = IF status = 200
               THEN Put(c, [color |-> color, price |-> price, ownerId |-> ownerId,
                            ownerName |-> ownerName, link |-> NoLink,
                            lastUpdated |-> now, isSecured |-> FALSE,
                            securityExpiresAt |-> NullDate])
               ELSE pixels
  /\ last' = [Step("createPaymentIntent",
                   IF status = 200 THEN Len(intents) + 1 ELSE NoIntent, status,
                   "", c, price)
                EXCEPT !.message = QuoteMessage(c, color, price, ownerId)]
  /\ UNCHANGED <<history, reqs, sent, now, nreq, clientVars>>

CreatePaymentIntent(c, color, price, ownerId, ownerName, stripeOk) ==
  LET status == QuoteStatus(c, color, price, ownerId, stripeOk) IN
  /\ nquote < MaxQuotes
  /\ nquote' = nquote + 1
  /\ intents' = IF status = 200
                THEN Append(intents, Intent(FALSE, ToCents(price), c, color,
                                            ownerId, ownerName, 0, FALSE))
                ELSE intents
  /\ last' = [Step("createPaymentIntent",
                   IF status = 200 THEN Len(intents) + 1 ELSE NoIntent, status,
                   "", c, price)
                EXCEPT !.message = QuoteMessage(c, color, price, ownerId)]
  /\ UNCHANGED <<pixels, history, reqs, sent, now, nreq, clientVars>>

\* ------------------------------------------------- POST /api/payments/webhook
\* the row the webhook's findOrCreate inserts for an absent cell
WebhookDefaults(pi, t) ==
  [color |-> pi.color, price |-> FromCents(pi.amount), ownerId |-> pi.ownerId,
   ownerName |-> pi.ownerName, link |-> NoLink, lastUpdated |-> t,
   isSecured |-> FALSE, securityExpiresAt |-> NullDate]

\* pixel.update({color, price, ownerId, ownerName, lastUpdated})
WebhookUpdated(row, pi, t) ==
  [row EXCEPT !.color = pi.color, !.price = FromCents(pi.amount),
              !.ownerId = pi.ownerId, !.ownerName = pi.ownerName,
              !.lastUpdated = t]

\* a webhook that applies every succeeded payment, bulk payments included
WebhookSettlesBulkToo(pi, type) ==
  /\ type = "payment_intent.succeeded"
  /\ pi.ownerId # "" /\ pi.ownerName # ""

\* the event is a succeeded single-cell payment with complete metadata
WebhookSettles(pi, type) ==
  /\ type = "payment_intent.succeeded"
  /\ ~pi.bulk
  /\ pi.color # "" /\ pi.ownerId # "" /\ pi.ownerName # ""

\* a webhook that reports a failed storage write to the gateway
WebhookResponseStrict(sig, stored) ==
  IF sig # "ok" THEN 400 ELSE IF ~stored THEN 500 ELSE 200

\* status of the webhook's response: 400 for a missing or invalid
\* signature, otherwise res.json({received: true}); an error of the storage
\* write is caught and logged
WebhookResponse(sig, stored) ==
  IF sig # "ok" THEN 400 ELSE 200

\* delivery of one event of intent i: signature check, switch on the type,
\* and for a succeeded single-cell payment findOrCreate and pixel.update;
\* dbOk is FALSE when the storage write throws
Webhook(i, type, sig, dbOk) ==
  LET pi == intents[i]
      settles == sig = "ok" /\ WebhookSettles(pi, type)
  IN
  /\ nreq < MaxRequests
  /\ i \in DOMAIN intents
  /\ type \in EventsOf(i)
  /\ nreq' = nreq + 1
  /\ last' = Step("webhook", i, WebhookResponse(sig, ~settles \/ dbOk), type,
                  pi.cell, FromCents(pi.amount))
  /\ IF sig # "ok"
     THEN \* missing or invalid signature
          UNCHANGED <<pixels, intents>>
     ELSE IF ~settles \/ ~dbOk
     THEN \* other event type, bulk payment, missing metadata, or the write
          \* failed: acknowledged
          /\ intents' = Acknowledged(i, type)
          /\ UNCHANGED pixels
     ELSE IF ~Exists(pi.cell)
     THEN \* findOrCreate created the row
          /\ pixels' = Put(pi.cell, WebhookDefaults(pi, now))
          /\ intents' = Acknowledged(i, type)
     ELSE \* findOrCreate found the row: pixel.update
          /\ pixels' = Put(pi.cell, WebhookUpdated(pixels[pi.cell], pi, now))
          /\ intents' = Acknowledged(i, type)
  /\ UNCHANGED <<history, reqs, sent, now, nquote, clientVars>>

\* ------------------------------------------- POST /api/pixels (routes/pixels.js)
\* the row findOrCreate inserts from the request's defaults
PostDefaults(r, t) ==
  [color |-> r.color, price |-> r.price, ownerId |-> r.ownerId,
   ownerName |-> r.ownerName, link |-> r.link, lastUpdated |-> t,
   isSecured |-> r.withSecurity, securityExpiresAt |-> r.securityExpiresAt]

\* the row after pixel.color = ...; ...; await pixel.save()
PostSaved(row, r) ==
  [row EXCEPT !.color = r.color, !.price = r.price, !.ownerId = r.ownerId,
              !.ownerName = r.ownerName, !.link = r.link,
              !.lastUpdated = r.lastUpdated, !.isSecured = r.withSecurity,
              !.securityExpiresAt = r.securityExpiresAt]

\* the pixelUpdate message built from the handler's pixel instance
PostMessage(r) ==
  [cell |-> r.cell, color |-> r.color, price |-> r.price, ownerId |-> r.ownerId,
   ownerName |-> r.ownerName, link |-> r.link, lastUpdated |-> r.lastUpdated]

\* the security check: a secured, unexpired pixel cannot be purchased
PostSecured(c, t) == Exists(c) /\ IsSecuredNow(pixels[c], t)

\* the minimum price check: price < existingPixel.price + minPrice - epsilon
PostTooLow(c, price) == Exists(c) /\ price < pixels[c].price + minPrice - epsilon

\* a payment verification that retrieved the intent and ignored its status
PaymentStatusUnverified(pi) ==
  IF pi = NoIntent THEN 0
  ELSE IF pi \notin DOMAIN intents THEN 500
  ELSE 0

\* the payment verification: 0 when it passes or no paymentIntentId is given
PaymentStatus(pi) ==
  IF pi = NoIntent THEN 0
  ELSE IF pi \notin DOMAIN intents THEN 500          \* retrieve throws
  ELSE IF intents[pi].status # "succeeded" THEN 400  \* payment not successful
  ELSE 0

\* status of the checks that precede the write: 0 when all pass
PostStatus(c, price, pi) ==
  IF PostSecured(c, now) \/ PostTooLow(c, price) THEN 400 ELSE PaymentStatus(pi)

\* findOne, the security check, the minimum price check and the payment
\* verification
PostPixel(c, price, o, ws, pi) ==
  LET status == PostStatus(c, price, pi)
      r == Req("postPixel", "findOrCreate", c, ColorOf(o), price, o,
               NameOf(o), LinkOf(o), ws, pi)
  IN
  /\ nreq < MaxRequests
  /\ nreq' = nreq + 1
  /\ reqs' = IF status = 0
             THEN Start([r EXCEPT !.securityExpiresAt = ExpiryFor(ws, now)])
             ELSE reqs
  /\ last' = Step("postPixel", pi, status, "", c, price)
  /\ UNCHANGED <<pixels, history, intents, sent, now, nquote, clientVars>>

\* Pixel.findOrCreate({where: {x, y}, defaults}) and, for a row that was
\* found, the assignments and pixel.save(); the row read by findOrCreate is
\* used only to choose between the insert and the save
PostFindOrCreate(r) ==
  /\ BagIn(r, reqs) /\ r.kind \in {"postPixel", "postPixelH"} /\ r.pc = "findOrCreate"
  /\ pixels' = IF ~Exists(r.cell)
               THEN Put(r.cell, PostDefaults(r, now))
               ELSE Put(r.cell, PostSaved(pixels[r.cell], [r EXCEPT !.lastUpdated = now]))
  /\ reqs' = Continue(r, [r EXCEPT !.pc = "broadcast", !.lastUpdated = now])
  /\ last' = Step(r.kind, r.pi, 0, "", r.cell, r.price)
  /\ UNCHANGED <<history, intents, sent, now, nreq, nquote, clientVars>>

\* global.wss.clients.forEach(client => client.send(message)); res.json
PostBroadcast(r) ==
  /\ BagIn(r, reqs) /\ r.kind \in {"postPixel", "postPixelH"} /\ r.pc = "broadcast"
  /\ sent' = Append(sent, PostMessage(r))
  /\ reqs' = Finish(r)
  /\ last' = Step(r.kind, r.pi, 200, "", r.cell, r.price)
  /\ UNCHANGED <<pixels, history, intents, now, nreq, nquote, clientVars>>

\* ------------------------------- POST /api/pixels (the revision with history)
\* the PixelHistory row that saves the state of an existing pixel; the table
\* numbers its rows (id 0: not yet inserted)
HistoryRow(c, row, t) ==
  [id |-> 0, cell |-> c, color |-> row.color, price |-> row.price, ownerId |-> row.ownerId,
   ownerName |-> row.ownerName, link |-> row.link, isSecured |-> row.isSecured,
   securityExpiresAt |-> row.securityExpiresAt, createdAt |-> t]

\* status of the checks that precede the history write: 0 when all pass
PostHStatus(color, price, ownerId, ownerName, pi) ==
  IF color = "" \/ price = 0 \/ ownerId = "" \/ ownerName = "" THEN 400
  ELSE PaymentStatus(pi)

\* a history that keeps only the latest row of the table
HistoryCreateLatestOnly(c, status) ==
  IF status = 0 /\ Exists(c)
  THEN <<[HistoryRow(c, pixels[c], now) EXCEPT !.id = Len(history) + 1]>>
  ELSE history

\* the PixelHistory table after the handler's PixelHistory.create, which runs
\* when the request passed the checks and findOne found the pixel
HistoryCreate(c, status) ==
  IF status = 0 /\ Exists(c)
  THEN Append(history, [HistoryRow(c, pixels[c], now) EXCEPT !.id = Len(history) + 1])
  ELSE history

\* validation, payment verification, findOne and PixelHistory.create
PostPixelH(c, price, o, ws, pi) ==
  LET status == PostHStatus(ColorOf(o), price, o, NameOf(o), pi)
      r == Req("postPixelH", "findOrCreate", c, ColorOf(o), price, o,
               NameOf(o), LinkOf(o), ws, pi)
  IN
  /\ nreq < MaxRequests
  /\ nreq' = nreq + 1
  /\ reqs' = IF status = 0
             THEN Start([r EXCEPT !.securityExpiresAt = ExpiryFor(ws, now)])
             ELSE reqs
  /\ history' = HistoryCreate(c, status)
  /\ last' = Step("postPixelH", pi, status, "", c, price)
  /\ UNCHANGED <<pixels, intents, sent, now, nquote, clientVars>>

\* --------------------------------------------- POST /api/pixels/payment-success
\* status of the body check and the payment verification: 0 when they pass
PaymentSuccessStatus(id, status) ==
  IF id = 0 \/ status # "succeeded" THEN 400
  ELSE IF id \notin DOMAIN intents THEN 500          \* retrieve throws
  ELSE IF intents[id].status # "succeeded" THEN 400  \* payment not successful
  ELSE 0

\* the row findOrCreate inserts: {color, price: amount / 100, ownerId, ownerName}
PaymentDefaults(r, t) ==
  [color |-> r.color, price |-> r.price, ownerId |-> r.ownerId,
   ownerName |-> r.ownerName, link |-> NoLink, lastUpdated |-> t,
   isSecured |-> FALSE, securityExpiresAt |-> NullDate]

\* the row after the assignments and pixel.save()
PaymentSaved(row, r, t) ==
  [row EXCEPT !.color = r.color, !.price = r.price, !.ownerId = r.ownerId,
              !.ownerName = r.ownerName, !.lastUpdated = t]

\* body check, payment verification, findOrCreate and pixel.save()
PaymentSuccess(id, amount, status, c, o) ==
  LET st == PaymentSuccessStatus(id, status)
      r == Req("paymentSuccess", "save", c, ColorOf(o), FromCents(amount), o,
               NameOf(o), NoLink, FALSE, id)
  IN
  /\ nreq < MaxRequests
  /\ nreq' = nreq + 1
  /\ IF st # 0
     THEN /\ last' = Step("paymentSuccess", id, st, "", c, FromCents(amount))
          /\ UNCHANGED pixels
     ELSE IF ~Exists(c)
     THEN /\ pixels' = Put(c, PaymentDefaults(r, now))
          /\ last' = Step("paymentSuccess", id, 200, "", c, FromCents(amount))
     ELSE /\ pixels' = Put(c, PaymentSaved(pixels[c], r, now))
          /\ last' = Step("paymentSuccess", id, 200, "", c, FromCents(amount))
  /\ UNCHANGED <<history, intents, reqs, sent, now, nquote, clientVars>>

\* ---------------------------------- POST /api/payments/create-bulk-payment-intent
RECURSIVE SumPrices(_)
SumPrices(ps) == IF ps = <<>> THEN 0 ELSE Head(ps).price + SumPrices(Tail(ps))

\* message of the 400 response to one proposed pixel, "" when it passes
BulkPixelMessage(p) ==
  IF p.cell[1] = 0 \/ p.cell[2] = 0 \/ p.color = "" \/ p.price = 0
  THEN "Invalid pixel data"
  ELSE IF Exists(p.cell) /\ IsSecuredNow(pixels[p.cell], now) THEN "Pixel is secured"
  ELSE IF Exists(p.cell) /\ p.price < pixels[p.cell].price + minPrice THEN "Bid too low"
  ELSE IF ~Exists(p.cell) /\ p.price < minPrice THEN "Bid too low"
  ELSE ""

\* the check of one proposed pixel: TRUE when it is rejected
BulkPixelRejected(p) == BulkPixelMessage(p) # ""

\* |expectedTotal - totalAmount| > 0.01
TotalMismatch(ps, totalAmount) ==
  LET d == SumPrices(ps) - totalAmount IN (IF d < 0 THEN -d ELSE d) > 10

\* message of the 400 response of the bulk quote's validation, "" when the
\* request passes it; the loop stops at the first pixel that is rejected
BulkError(ps, totalAmount, ownerId, ownerName) ==
  LET bad == {k \in 1..Len(ps) : BulkPixelRejected(ps[k])} IN
  IF ps = <<>> THEN "Invalid pixels data"
  ELSE IF ownerId = "" \/ ownerName = "" THEN "Missing required fields"
  ELSE IF bad # {} THEN BulkPixelMessage(ps[CHOOSE k \in bad : \A j \in bad : k <= j])
  ELSE IF TotalMismatch(ps, totalAmount) THEN "Total amount mismatch"
  ELSE ""

\* status the bulk quote's validation ends with: 0 when it passes
BulkStatus(ps, totalAmount, ownerId, ownerName) ==
  IF BulkError(ps, totalAmount, ownerId, ownerName) # "" THEN 400 ELSE 0

\* validation of the proposal and stripe.paymentIntents.create
CreateBulkPaymentIntent(ps, totalAmount, ownerId, ownerName, stripeOk) ==
  LET st == BulkStatus(ps, totalAmount, ownerId, ownerName)
      status == IF st = 0 /\ ~stripeOk THEN 500 ELSE st
      r == [Req("bulk", "bulkCreate", <<0, 0>>, "", totalAmount, ownerId, ownerName,
                NoLink, Head(ps).withSecurity, Len(intents) + 1)
              EXCEPT !.snap = ps, !.securityExpiresAt = NullDate]
  IN
  /\ nreq < MaxRequests /\ nquote < MaxQuotes
  /\ nreq' = nreq + 1 /\ nquote' = nquote + 1
  /\ IF status # 0
     THEN /\ last' = [Step("bulk", NoIntent, status, "", <<0, 0>>, totalAmount)
                      EXCEPT !.message = BulkError(ps, totalAmount, ownerId, ownerName)]
          /\ UNCHANGED <<intents, reqs>>
     ELSE /\ intents' = Append(intents, Intent(TRUE, ToCents(totalAmount), <<0, 0>>, "",
                                               ownerId, ownerName, Len(ps),
                                               Head(ps).withSecurity))
          /\ reqs' = Start(r)
          /\ last' = Step("bulk", Len(intents) + 1, 0, "", <<0, 0>>, totalAmount)
  /\ UNCHANGED <<pixels, history, sent, now, clientVars>>

\* the row bulkCreate writes for proposal p: an existing row keeps its link
BulkRow(p, r, t) ==
  [color |-> p.color, price |-> p.price, ownerId |-> r.ownerId,
   ownerName |-> r.ownerName,
   link |-> IF Exists(p.cell) THEN pixels[p.cell].link ELSE NoLink,
   lastUpdated |-> t, isSecured |-> p.withSecurity,
   securityExpiresAt |-> IF p.withSecurity THEN ExpiryFor(r.withSecurity, t)
                         ELSE NullDate]

\* the pixelUpdate message of one written pixel
BulkMessage(p, r) ==
  [cell |-> p.cell, color |-> p.color, price |-> p.price, ownerId |-> r.ownerId,
   ownerName |-> r.ownerName, lastUpdated |-> r.lastUpdated,
   isSecured |-> p.withSecurity,
   securityExpiresAt |-> IF p.withSecurity THEN ExpiryFor(r.withSecurity, r.lastUpdated)
                         ELSE NullDate]

\* Pixel.findAll and Pixel.bulkCreate(newPixels, {updateOnDuplicate})
BulkCreate(r) ==
  LET ps == r.snap
      cs == {ps[k].cell : k \in 1..Len(ps)}
      at(c) == CHOOSE k \in 1..Len(ps) : ps[k].cell = c /\ \A j \in k+1..Len(ps) : ps[j].cell # c
  IN
  /\ BagIn(r, reqs) /\ r.kind = "bulk" /\ r.pc = "bulkCreate"
  /\ pixels' = [c \in DOMAIN pixels \cup cs |->
                  IF c \in cs THEN BulkRow(ps[at(c)], r, now) ELSE pixels[c]]
  /\ reqs' = Continue(r, [r EXCEPT !.pc = "broadcast", !.lastUpdated = now])
  /\ last' = Step("bulk", r.pi, 0, "", r.cell, r.price)
  /\ UNCHANGED <<history, intents, sent, now, nreq, nquote, clientVars>>

\* one message per written pixel to every open client, then res.json
BulkBroadcast(r) ==
  /\ BagIn(r, reqs) /\ r.kind = "bulk" /\ r.pc = "broadcast"
  /\ sent' = sent \o [k \in 1..Len(r.snap) |-> BulkMessage(r.snap[k], r)]
  /\ reqs' = Finish(r)
  /\ last' = Step("bulk", r.pi, 200, "", r.cell, r.price)
  /\ UNCHANGED <<pixels, history, intents, now, nreq, nquote, clientVars>>

\* ------------------------------------------------- PUT /api/pixels/:x/:y/link
\* the links sent to the route
LinkInputs == {"edited"}

\* a save that writes every field of the instance findOne read
PutLinkSavedWhole(r) == [r.snap EXCEPT !.link = r.link]

\* the row after pixel.link = link; await pixel.save(): save writes the
\* fields that were assigned
PutLinkSaved(r) == [pixels[r.cell] EXCEPT !.link = r.link]

\* parseInt of the coordinates, findOne, and the 404 for an absent pixel
PutLink(c, link) ==
  LET r == [Req("putLink", "save", c, "", 0, "", "", link, FALSE, NoIntent)
              EXCEPT !.snap = IF Exists(c) THEN pixels[c] ELSE <<>>]
  IN
  /\ nreq < MaxRequests
  /\ nreq' = nreq + 1
  /\ reqs' = IF Exists(c) THEN Start(r) ELSE reqs
  /\ last' = Step("putLink", NoIntent, IF Exists(c) THEN 0 ELSE 404, "", c, 0)
  /\ UNCHANGED <<pixels, history, intents, sent, now, nquote, clientVars>>

\* pixel.link = link; await pixel.save(); res.json(pixel)
PutLinkSave(r) ==
  /\ BagIn(r, reqs) /\ r.kind = "putLink" /\ r.pc = "save"
  /\ pixels' = Put(r.cell, PutLinkSaved(r))
  /\ reqs' = Finish(r)
  /\ last' = Step("putLink", NoIntent, 200, "", r.cell, 0)
  /\ UNCHANGED <<history, intents, sent, now, nreq, nquote, clientVars>>

\* ------------------------------------------------------------ specifications
Sigs == {"bad", "ok"}
EventTypes == {"payment_intent.created", "payment_intent.succeeded",
               "payment_intent.payment_failed"}

\* the steps of routes/payments.js, of POST /api/pixels/payment-success, and
\* the steps the two revisions of POST /api/pixels share; the gateway fails
\* for one quote body of each kind, and a bad signature comes with the
\* succeeded event
Handlers ==
  \/ \E i \in 1..MaxQuotes : GatewaySucceed(i)
  \/ \E b \in QuoteBodies, stripeOk \in BOOLEAN :
        /\ ~stripeOk => b.price = 2000
        /\ CreatePaymentIntent(b.cell, ColorOf(b.ownerId), b.price, b.ownerId,
                            NameOf(b.ownerId), stripeOk)
  \/ \E i \in 1..MaxQuotes, type \in EventTypes, sig \in Sigs, dbOk \in BOOLEAN :
        /\ sig # "ok" \/ ~dbOk => type = "payment_intent.succeeded"
        /\ ~dbOk => sig = "ok"
        /\ Webhook(i, type, sig, dbOk)
  \/ \E b \in BulkBodies, stripeOk \in BOOLEAN :
        /\ ~stripeOk => Len(b.pixels) = 2
        /\ CreateBulkPaymentIntent(b.pixels, b.totalAmount, b.ownerId,
                                NameOf(b.ownerId), stripeOk)
  \/ \E r \in BagToSet(reqs) : BulkCreate(r)
  \/ \E r \in BagToSet(reqs) : BulkBroadcast(r)
  \/ \E b \in PaymentBodies : PaymentSuccess(b.id, b.amount, b.status, b.cell, b.ownerId)
  \/ \E r \in BagToSet(reqs) : PostFindOrCreate(r)
  \/ \E r \in BagToSet(reqs) : PostBroadcast(r)

\* the steps the two revisions of the server share, and the clock
Common == Tick \/ Handlers

\* the server with routes/pixels.js; buyer b's unprotected bid may name the
\* payment intent 1
Next ==
  \/ Common
  \/ \E b \in PostBodies, pi \in 0..1 :
        /\ b.ownerId = "a" \/ b.withSecurity => pi = NoIntent
        /\ PostPixel(b.cell, b.price, b.ownerId, b.withSecurity, pi)

Spec == Init /\ [][Next]_vars

\* the server with the revision of routes/pixels.js that writes PixelHistory
NextH ==
  \/ Common
  \/ \E b \in PostBodies, pi \in 0..1 :
        /\ b.ownerId = "a" \/ b.withSecurity => pi = NoIntent
        /\ PostPixelH(b.cell, b.price, b.ownerId, b.withSecurity, pi)

SpecH == Init /\ [][NextH]_vars

\* the server with the history revision within one instant of the clock, and
\* with the link route called for cell (1, 1) and for cell (2, 1)
NextLog ==
  \/ Handlers
  \/ \E b \in PostBodies, pi \in 0..1 :
        /\ b.ownerId = "a" \/ b.withSecurity => pi = NoIntent
        /\ PostPixelH(b.cell, b.price, b.ownerId, b.withSecurity, pi)
  \/ \E c \in {<<1, 1>>, <<2, 1>>}, link \in LinkInputs : PutLink(c, link)
  \/ \E r \in BagToSet(reqs) : PutLinkSave(r)

\* the row POST /api/pixels inserts for buyer a's purchase at the floor price
FirstRow ==
  [color |-> ColorOf("a"), price |-> minPrice, ownerId |-> "a", ownerName |-> NameOf("a"),
   link |-> LinkOf("a"), lastUpdated |-> 0, isSecured |-> FALSE,
   securityExpiresAt |-> NullDate]

\* the server after construction, or after buyer a has bought cell (1, 1) at
\* the floor price
InitLog ==
  /\ pixels \in {<<>>, (<<1, 1>> :> FirstRow)}
  /\ history = <<>>
  /\ intents = <<>>
  /\ reqs = EmptyBag
  /\ sent = <<>>
  /\ now = 0
  /\ nreq = 0
  /\ nquote = 0
  /\ last = Idle
  /\ ClientInit

SpecLog == InitLog /\ [][NextLog]_vars

\* ------------------------------------------------------------ free placement
\* PIXEL_CONFIG.maxPixels: the number of pixels a browser may place for free
maxPixels == 3

\* Pixel.count({where: {ownerId: browserId, price: 0}}): the free pixels the
\* server has stored for an owner
FreeCount(o) ==
  Cardinality({c \in DOMAIN pixels : pixels[c].ownerId = o /\ pixels[c].price = 0})

\* the cells buyer a has placed for free, and the row of each
FreeCells == {<<x, 2>> : x \in 1..maxPixels}
FreeRow ==
  [color |-> ColorOf("a"), price |-> 0, ownerId |-> "a", ownerName |-> NameOf("a"),
   link |-> LinkOf("a"), lastUpdated |-> 0, isSecured |-> FALSE,
   securityExpiresAt |-> NullDate]

\* the server after buyer a has used the whole free allocation: maxPixels
\* requests POST /api/pixels {price: 0} without payment have been accepted
InitFree ==
  /\ pixels = [c \in FreeCells |-> FreeRow]
  /\ history = <<>>
  /\ intents = <<>>
  /\ reqs = EmptyBag
  /\ sent = <<>>
  /\ now = 0
  /\ nreq = 0
  /\ nquote = 0
  /\ last = Idle
  /\ ClientInit

\* ------------------------------------------------------------- GET routes
\* the GET routes of the router in the order of their registration; a
\* segment that starts with ':' is a parameter
RouteParams == {":x", ":y", ":browserId"}
GetRoutes == << <<>>, <<":x", ":y">>, <<"free-count", ":browserId">>, <<"config">> >>

\* Express matches a path against a route segment by segment
RouteMatches(route, path) ==
  /\ Len(route) = Len(path)
  /\ \A k \in DOMAIN route : route[k] \in RouteParams \/ route[k] = path[k]

\* the first registered route that matches; 0 when none does
Dispatch(path) ==
  LET ks == {k \in DOMAIN GetRoutes : RouteMatches(GetRoutes[k], path)} IN
  IF ks = {} THEN 0 ELSE CHOOSE k \in ks : \A j \in ks : k <= j

\* parseInt(segment, 10); NoPrice stands for NaN
ParseInt(seg) ==
  IF seg = "0" THEN 0 ELSE IF seg = "1" THEN 1 ELSE IF seg = "2" THEN 2
  ELSE IF seg = "3" THEN 3 ELSE NoPrice

\* the response of GET /:x/:y
GetPixelResponse(path) ==
  LET x == ParseInt(path[1])
      y == ParseInt(path[2])
  IN
  IF x = NoPrice \/ y = NoPrice
  THEN [status |-> 400, message |-> "Invalid coordinates", body |-> NoPrice]
  ELSE IF ~Exists(<<x, y>>)
  THEN [status |-> 404, message |-> "Pixel not found", body |-> NoPrice]
  ELSE [status |-> 200, message |-> "", body |-> pixels[<<x, y>>].price]

\* the response of the router to GET path: the handler of the first matching
\* route answers, and none of the handlers calls next()
GetResponse(path) ==
  LET k == Dispatch(path) IN
  IF k = 2 THEN GetPixelResponse(path)
  ELSE IF k = 3 THEN [status |-> 200, message |-> "", body |-> FreeCount(path[2])]
  ELSE IF k = 0 THEN [status |-> 404, message |-> "", body |-> NoPrice]
  ELSE [status |-> 200, message |-> "", body |-> NoPrice]

\* the paths requested: the free count of each owner, and a pixel
GetPaths == {<<"free-count", o>> : o \in Owners} \cup {<<"1", "2">>, <<"1", "1">>}

\* a GET request: it reads the store and changes nothing
Get(path) ==
  LET resp == GetResponse(path) IN
  /\ last' = [Step("get", NoIntent, resp.status, "", <<0, 0>>, 0)
                EXCEPT !.message = resp.message, !.body = resp.body]
  /\ UNCHANGED <<pixels, history, intents, reqs, sent, now, nreq, nquote, clientVars>>

\* POST /api/pixels {x: 1, y: 1, color: 'red', price: 1} from a caller that
\* sends neither ownerId nor ownerName
AnonymousPost ==
  LET status == PostStatus(<<1, 1>>, minPrice, NoIntent)
      r == Req("postPixel", "findOrCreate", <<1, 1>>, "red", minPrice, "", "",
               NoLink, FALSE, NoIntent)
  IN
  /\ nreq < MaxRequests
  /\ nreq' = nreq + 1
  /\ reqs' = IF status = 0 THEN Start(r) ELSE reqs
  /\ last' = Step("postPixel", NoIntent, status, "", <<1, 1>>, minPrice)
  /\ UNCHANGED <<pixels, history, intents, sent, now, nquote, clientVars>>

\* a bulk proposal whose first pixel is bought without protection and whose
\* second pixel is bought with it
MixedPixels == <<BulkPixel(<<1, 1>>, FALSE), BulkPixel(<<2, 1>>, TRUE)>>

\* ------------------------------------------- BulkPaymentForm (the client)
\* the factor calculateFinalTotal applies when the security option is selected
SecurityFactor == 4

\* the selections of cells buyer a pays for with the form
Selections == {<< <<1, 1>> >>, << <<1, 1>>, <<2, 1>> >>, << <<1, 2>> >>}

\* pixelPrices: the stored price plus minPrice for a cell getPixel found,
\* minPrice for the others
PixelPrice(c) == IF Exists(c) THEN pixels[c].price + minPrice ELSE minPrice

\* the pixels handleSubmit sends: each with its price from pixelPrices and
\* the form's withSecurity
FormPixels(sel, ws) ==
  [k \in 1..Len(sel) |->
     [cell |-> sel[k], color |-> ColorOf("a"), price |-> PixelPrice(sel[k]),
      withSecurity |-> ws]]

\* calculateBaseTotal: the sum of pixelPrices
CalculateBaseTotal(sel) == SumPrices(FormPixels(sel, FALSE))

\* calculateFinalTotal: withSecurity ? baseTotal * 4 : baseTotal
CalculateFinalTotal(sel, ws) ==
  IF ws THEN CalculateBaseTotal(sel) * SecurityFactor ELSE CalculateBaseTotal(sel)

\* handleSubmit: createBulkPaymentIntent(pixels, finalTotal, browserId, ownerName)
BulkHandleSubmit(sel, ws) ==
  CreateBulkPaymentIntent(FormPixels(sel, ws), CalculateFinalTotal(sel, ws),
                          "a", NameOf("a"), TRUE)

\* the server with routes/pixels.js when buyer a may also send requests the
\* shipped client does not: a further free placement, POST /api/pixels
\* {x: 1, y: 1, price: 0} with no paymentIntentId, and a bulk purchase whose
\* pixels differ in withSecurity, and a POST /api/pixels without owner; and
\* with the GET routes; and with a quote request that names no ownerName, and
\* a POST /api/pixels of buyer b for cell (2, 1) that names payment intent 1;
\* and with the bulk requests the client's BulkPaymentForm submits
NextFree ==
  \/ Next
  \/ PostPixel(<<1, 1>>, 0, "a", FALSE, NoIntent)
  \/ CreateBulkPaymentIntent(MixedPixels, SumPrices(MixedPixels), "a", NameOf("a"), TRUE)
  \/ \E path \in GetPaths : Get(path)
  \/ AnonymousPost
  \/ CreatePaymentIntent(<<1, 1>>, ColorOf("b"), minPrice, "b", "", TRUE)
  \/ PostPixel(<<2, 1>>, 2000, "b", FALSE, 1)
  \/ \E sel \in Selections, ws \in BOOLEAN : BulkHandleSubmit(sel, ws)

SpecFree == InitFree /\ [][NextFree]_vars

\* ------------------------------------------------------- WebSocketService
maxReconnectAttempts == 5

serverVars == <<pixels, history, intents, reqs, sent, now, nreq, nquote, last>>
configVars == <<config, configPromise, promises, callers>>
socketVars == <<thisWs, socket, reconnectAttempts, reconnectTimeout, timer, disconnected>>

\* an onopen that keeps the backoff of the failed attempts
WsOpenKeepingBackoff ==
  /\ socket = "CONNECTING"
  /\ socket' = "OPEN"
  /\ UNCHANGED <<reconnectAttempts, reconnectTimeout>>
  /\ UNCHANGED <<thisWs, timer, disconnected, configVars, serverVars>>

\* ws.onopen: the connection is established
WsOpen ==
  /\ socket = "CONNECTING"
  /\ socket' = "OPEN"
  /\ reconnectAttempts' = 0
  /\ reconnectTimeout' = 1000
  /\ UNCHANGED <<thisWs, timer, disconnected, configVars, serverVars>>

\* ws.onclose: the connection failed, was dropped, or was closed by close();
\* the handler calls attemptReconnect()
WsClose ==
  /\ socket \in {"CONNECTING", "OPEN", "CLOSING"}
  /\ socket' = "CLOSED"
  /\ IF reconnectAttempts < maxReconnectAttempts
     THEN /\ reconnectAttempts' = reconnectAttempts + 1
          /\ timer' = reconnectTimeout
          /\ reconnectTimeout' = reconnectTimeout * 2
     ELSE UNCHANGED <<reconnectAttempts, timer, reconnectTimeout>>
  /\ UNCHANGED <<thisWs, disconnected, configVars, serverVars>>

\* the timeout set by attemptReconnect fires: this.connect()
WsTimer ==
  /\ timer # 0
  /\ timer' = 0
  /\ thisWs' = "socket"
  /\ socket' = "CONNECTING"
  /\ UNCHANGED <<reconnectAttempts, reconnectTimeout, disconnected, configVars, serverVars>>

\* disconnect(): if (this.ws) { this.ws.close(); this.ws = null }
WsDisconnect ==
  /\ disconnected' = TRUE
  /\ thisWs' = "null"
  /\ socket' = IF thisWs = "socket" /\ socket \in {"CONNECTING", "OPEN"}
               THEN "CLOSING" ELSE socket
  /\ UNCHANGED <<reconnectAttempts, reconnectTimeout, timer, configVars, serverVars>>

\* ---------------------------------------------------------- ConfigService
\* a getConfig that looks at this.config only
GetConfigBranchUncached(c) ==
  IF config # 0 THEN "config" ELSE "request"

\* what getConfig returns: this.config, this.configPromise, or a new promise
GetConfigBranch(c) ==
  IF config # 0 THEN "config"
  ELSE IF configPromise # 0 THEN "promise"
  ELSE "request"

\* getConfig() called by c; the new promise starts axios.get(.../pixels/config)
GetConfig(c) ==
  LET branch == GetConfigBranch(c) IN
  /\ callers[c].pc # "awaiting"
  /\ branch = "request" => Len(promises) < MaxHttp
  /\ promises' = IF branch = "request"
                 THEN Append(promises, [state |-> "pending", value |-> 0])
                 ELSE promises
  /\ configPromise' = IF branch = "request" THEN Len(promises) + 1 ELSE configPromise
  /\ callers' = [callers EXCEPT ![c] =
                   IF branch = "config"
                   THEN [pc |-> "done", promise |-> 0, value |-> config]
                   ELSE [pc |-> "awaiting",
                         promise |-> IF branch = "promise" THEN configPromise
                                     ELSE Len(promises) + 1,
                         value |-> 0]]
  /\ UNCHANGED <<config, socketVars, serverVars>>

\* .then(response => { this.config = response.data; resolve(this.config) })
HttpSucceed(n) ==
  /\ n \in DOMAIN promises /\ promises[n].state = "pending"
  /\ config' = n
  /\ promises' = [promises EXCEPT ![n] = [state |-> "fulfilled", value |-> n]]
  /\ UNCHANGED <<configPromise, callers, socketVars, serverVars>>

\* .catch(error => reject(new Error(...)))
HttpFail(n) ==
  /\ n \in DOMAIN promises /\ promises[n].state = "pending"
  /\ promises' = [promises EXCEPT ![n] = [state |-> "rejected", value |-> 0]]
  /\ UNCHANGED <<config, configPromise, callers, socketVars, serverVars>>

\* the caller's await continues with the promise's value, or throws
Resume(c) ==
  /\ callers[c].pc = "awaiting"
  /\ promises[callers[c].promise].state # "pending"
  /\ callers' = [callers EXCEPT ![c] =
                   IF promises[callers[c].promise].state = "fulfilled"
                   THEN [pc |-> "done", promise |-> 0,
                         value |-> promises[callers[c].promise].value]
                   ELSE [pc |-> "failed", promise |-> 0, value |-> 0]]
  /\ UNCHANGED <<config, configPromise, promises, socketVars, serverVars>>

\* the client: the steps of the WebSocketService and of the ConfigService
NextClient ==
  \/ WsOpen
  \/ WsClose
  \/ WsTimer
  \/ WsDisconnect
  \/ \E c \in Callers : GetConfig(c)
  \/ \E n \in 1..MaxHttp : HttpSucceed(n)
  \/ \E n \in 1..MaxHttp : HttpFail(n)
  \/ \E c \in Callers : Resume(c)

SpecClient == Init /\ [][NextClient]_vars

\* ------------------------------------------------------------------ viewer
\* coloredPixels of a viewer that hydrated through GET /api/pixels while the
\* store was empty and has received every message sent since: the color of
\* the last pixelUpdate message for the cell, "" when it holds none
ViewerColor(c) ==
  LET ks == {k \in DOMAIN sent : sent[k].cell = c} IN
  IF ks = {} THEN "" ELSE sent[CHOOSE k \in ks : \A j \in ks : j <= k].color

\* -------------------------------------------------------------- properties
\* C1: the stored price of a cell never decreases, and every settlement that
\* overwrites an existing cell stores a price strictly greater than the one
\* it replaces.
C1_PriceMonotonic ==
  [][\A c \in DOMAIN pixels :
        /\ pixels'[c].price >= pixels[c].price
        /\ [pixels'[c] EXCEPT !.link = NoLink] # [pixels[c] EXCEPT !.link = NoLink]
             => pixels'[c].price > pixels[c].price]_vars

\* C2: once a delivery of an intent's payment_intent.succeeded event has been
\* acknowledged, a further delivery of the same event changes no cell,
\* appends no history row and sends no message.
C2_RedeliveryNoEffect ==
  [][(/\ last'.kind = "webhook"
      /\ last'.event = "payment_intent.succeeded"
      /\ intents[last'.pi].delivered)
       => pixels' = pixels /\ history' = history /\ sent' = sent]_vars

\* C3: of two settlements validated against the same stored price exactly one
\* is applied: a handler whose cell no longer holds the price its findOne
\* read (because another settlement was applied in between) changes nothing.
C3_StaleSettlementRejected ==
  [][\A r \in BagToSet(reqs) :
        (/\ CopiesIn(r, reqs') < CopiesIn(r, reqs)
         /\ r.kind \in {"postPixel", "postPixelH"}
         /\ (IF Exists(r.cell) THEN pixels[r.cell].price ELSE NoPrice) # r.seen)
          => pixels' = pixels]_vars

\* C4: a settlement attempt whose price is not strictly greater than the
\* price currently stored for its cell changes no cell, appends no history
\* row and sends no message, neither in the step that receives it nor in the
\* step of its handler that writes.
C4_NotGreaterRejected ==
  [][/\ (/\ nreq' = nreq + 1
         /\ Exists(last'.cell)
         /\ last'.price <= pixels[last'.cell].price)
          => pixels' = pixels /\ history' = history /\ sent' = sent
     /\ \A r \in BagToSet(reqs) :
          (/\ CopiesIn(r, reqs') < CopiesIn(r, reqs)
           /\ r.pc = "findOrCreate"
           /\ Exists(r.cell)
           /\ r.price <= pixels[r.cell].price)
            => pixels' = pixels /\ history' = history /\ sent' = sent]_vars

\* C5: a step of the webhook, of POST /api/pixels or of POST
\* /api/pixels/payment-success that handles a payment whose intent has not
\* succeeded, or a webhook event other than payment_intent.succeeded, changes
\* no cell, appends no history row and sends no message.
C5_OnlySucceededApplied ==
  [][(/\ last'.kind \in {"webhook", "postPixel", "postPixelH", "paymentSuccess"}
      /\ last'.pi \in DOMAIN intents
      /\ \/ intents[last'.pi].status # "succeeded"
         \/ last'.kind = "webhook" /\ last'.event # "payment_intent.succeeded")
       => pixels' = pixels /\ history' = history /\ sent' = sent]_vars

\* C5 witness: POST /api/pixels has answered 400 to a request that named a
\* payment intent which has not succeeded, the store being empty so that no
\* other check can have rejected it.
C5_Witness ==
  /\ last.kind = "postPixel" /\ last.status = 400
  /\ last.pi \in DOMAIN intents
  /\ intents[last.pi].status # "succeeded"
  /\ pixels = <<>>

\* C6: no step of POST /api/payments/create-bulk-payment-intent creates or
\* changes a cell or sends a message: the handler only validates the proposal
\* and opens the payment intent.
C6_BulkQuoteWritesNothing ==
  [][last'.kind = "bulk" => pixels' = pixels /\ sent' = sent]_vars

\* C7: POST /api/payments/create-payment-intent, whatever it answers, leaves
\* the cells, the history and the broadcast channel unchanged and leaves no
\* handler waiting to write.
C7_QuoteFrame ==
  [][last'.kind = "createPaymentIntent"
       => pixels' = pixels /\ history' = history /\ sent' = sent /\ reqs' = reqs]_vars

\* C7 witness: a quote has been accepted for a cell that is already owned.
C7_Witness ==
  /\ last.kind = "createPaymentIntent" /\ last.status = 200
  /\ Exists(last.cell)
  /\ last.pi \in DOMAIN intents

\* C8: whenever a stored cell is overwritten, the history already holds a row
\* equal to the state that is being replaced.
C8_OverwriteHasHistory ==
  [][\A c \in DOMAIN pixels :
        [pixels'[c] EXCEPT !.link = NoLink] # [pixels[c] EXCEPT !.link = NoLink]
          => \E k \in DOMAIN history :
                [history[k] EXCEPT !.createdAt = 0, !.id = 0] = HistoryRow(c, pixels[c], 0)]_vars

\* C9: a step that changes the owner, price, color or protection of a cell
\* under active protection stores a price of at least ProtectionMultiplier
\* times the price it replaces.
C9_ProtectedBelowTenfold ==
  [][\A c \in DOMAIN pixels :
        (/\ IsSecuredNow(pixels[c], now)
         /\ \/ pixels'[c].ownerId # pixels[c].ownerId
            \/ pixels'[c].price # pixels[c].price
            \/ pixels'[c].color # pixels[c].color
            \/ pixels'[c].isSecured # pixels[c].isSecured
            \/ pixels'[c].securityExpiresAt # pixels[c].securityExpiresAt)
          => pixels'[c].price >= ProtectionMultiplier * pixels[c].price]_vars

\* C10: POST /api/pixels does not reject a request for a cell under active
\* protection whose price is at least ProtectionMultiplier times the stored
\* price and whose payment, if any, has succeeded.
C10_TenfoldAccepted ==
  [][(/\ last'.kind = "postPixel"
      /\ nreq' = nreq + 1
      /\ Exists(last'.cell)
      /\ IsSecuredNow(pixels[last'.cell], now)
      /\ last'.price >= ProtectionMultiplier * pixels[last'.cell].price
      /\ PaymentStatus(last'.pi) = 0)
       => last'.status < 400]_vars

\* C11: a cell under active protection stays protected, with the same owner
\* and an expiry that is not earlier, through every step that does not store
\* at least ProtectionMultiplier times the protected price; only the passing
\* of time ends the protection otherwise.
C11_ProtectionKept ==
  [][\A c \in DOMAIN pixels :
        (/\ IsSecuredNow(pixels[c], now)
         /\ pixels'[c].price < ProtectionMultiplier * pixels[c].price)
          => /\ pixels'[c].ownerId = pixels[c].ownerId
             /\ pixels'[c].isSecured
             /\ pixels'[c].securityExpiresAt >= pixels[c].securityExpiresAt]_vars

\* C12: when the handler of a bulk purchase writes, a proposed cell that
\* another buyer has meanwhile taken over at a higher price keeps that
\* buyer's row, and every other proposed cell is stored for the bulk buyer.
C12_BulkPartialSuccess ==
  [][\A r \in BagToSet(reqs) :
        (/\ CopiesIn(r, reqs') < CopiesIn(r, reqs)
         /\ r.kind = "bulk" /\ r.pc = "bulkCreate")
          => \A k \in DOMAIN r.snap :
                IF /\ Exists(r.snap[k].cell)
                   /\ pixels[r.snap[k].cell].ownerId # r.ownerId
                   /\ pixels[r.snap[k].cell].price > r.snap[k].price
                THEN pixels'[r.snap[k].cell] = pixels[r.snap[k].cell]
                ELSE pixels'[r.snap[k].cell].ownerId = r.ownerId]_vars

C14_ChangeIsBroadcast ==
  [][/\ \A c \in DOMAIN pixels' :
          (c \notin DOMAIN pixels \/ pixels'[c] # pixels[c])
            => \E r \in BagToSet(reqs') :
                  /\ CopiesIn(r, reqs') > CopiesIn(r, reqs)
                  /\ r.pc = "broadcast"
                  /\ r.cell = c \/ \E k \in DOMAIN r.snap : r.snap[k].cell = c
     /\ \A r \in BagToSet(reqs) :
          (CopiesIn(r, reqs') < CopiesIn(r, reqs) /\ r.pc = "broadcast")
            => Len(sent') = Len(sent) + (IF r.kind = "bulk" THEN Len(r.snap) ELSE 1)]_vars

\* C15: messages reach the viewers in the order of the writes they announce:
\* once every handler has responded, the last message sent for a cell gives
\* the owner, price and color that are stored for it.
C15_LastMessageIsStored ==
  reqs = EmptyBag =>
    \A c \in DOMAIN pixels :
      LET ks == {k \in DOMAIN sent : sent[k].cell = c} IN
      ks # {} =>
        LET m == sent[CHOOSE k \in ks : \A j \in ks : j <= k] IN
        /\ m.ownerId = pixels[c].ownerId
        /\ m.price = pixels[c].price
        /\ m.color = pixels[c].color

\* C16: a step of the webhook or of POST /api/pixels that writes a cell on
\* behalf of a payment intent stores, as the cell's price, the amount that
\* the intent charged (its amount in cents divided by 100).
C16_PriceIsAmountCharged ==
  [][(/\ last'.kind \in {"webhook", "postPixel", "postPixelH"}
      /\ last'.pi \in DOMAIN intents
      /\ pixels' # pixels)
       => /\ last'.cell \in DOMAIN pixels'
          /\ pixels'[last'.cell].price = FromCents(intents[last'.pi].amount)]_vars

\* C18: a cell becomes protected, or passes to another owner while
\* protected, only in a step taken for a succeeded payment intent whose
\* charged amount exceeds the price stored for the cell, that is, includes a
\* protection surcharge.
C18_ProtectionIsPaid ==
  [][\A c \in DOMAIN pixels' :
        (/\ pixels'[c].isSecured
         /\ \/ c \notin DOMAIN pixels
            \/ ~pixels[c].isSecured
            \/ pixels'[c].ownerId # pixels[c].ownerId)
          => /\ last'.pi \in DOMAIN intents
             /\ intents[last'.pi].status = "succeeded"
             /\ FromCents(intents[last'.pi].amount) > pixels'[c].price]_vars

\* C17: the server never stores more than maxPixels free (zero-price) cells
\* for one owner: a further free placement is refused from the stored
\* ownership data, whatever count the client keeps.
C17_FreeAllocationBounded ==
  \A o \in Owners : FreeCount(o) <= maxPixels

\* C19: for a request that names its color and buyer and whose cells are not
\* under active protection, the single-cell quote and the bulk quote answer
\* 'Bid too low' exactly when a price is below the minimum bid: the floor for
\* an absent cell, the stored price plus the increment for an existing one.
C19_BidTooLowExactly ==
  [][/\ \A b \in QuoteBodies, stripeOk \in BOOLEAN :
          (/\ b.ownerId # "" /\ ~PostSecured(b.cell, now)
           /\ CreatePaymentIntent(b.cell, ColorOf(b.ownerId), b.price, b.ownerId,
                                  NameOf(b.ownerId), stripeOk))
            => ((last'.message = "Bid too low") <=> b.price < MinimumBid(b.cell))
     /\ \A b \in BulkBodies, stripeOk \in BOOLEAN :
          (/\ b.ownerId # "" /\ b.pixels # <<>>
           /\ \A k \in DOMAIN b.pixels : ~PostSecured(b.pixels[k].cell, now)
           /\ CreateBulkPaymentIntent(b.pixels, b.totalAmount, b.ownerId,
                                      NameOf(b.ownerId), stripeOk))
            => ((last'.message = "Bid too low")
                  <=> \E k \in DOMAIN b.pixels :
                         b.pixels[k].price < MinimumBid(b.pixels[k].cell))]_vars

\* C20: whenever the single-cell quote or the bulk quote rejects a request
\* in validation (missing field, non-positive price, bid too low, empty or
\* invalid pixel list, missing owner identity, protected cell, total
\* mismatch), the response is 400 in the step that receives the request, and
\* that step opens no intent, creates or changes no cell, appends no history
\* row, sends no message and leaves no handler waiting.
C20_RejectedQuoteFrame ==
  [][(/\ last'.kind \in {"createPaymentIntent", "bulk"}
      /\ last'.message # "" \/ last'.status = 400)
       => /\ last'.status = 400 /\ last'.message # ""
          /\ nquote' = nquote + 1
          /\ intents' = intents /\ pixels' = pixels /\ history' = history
          /\ sent' = sent /\ reqs' = reqs]_vars

\* C20 witness: the bulk quote has answered 'Bid too low' for a proposal on a
\* cell that is already owned.
C20_Witness ==
  /\ last.kind = "bulk" /\ last.status = 400
  /\ last.message = "Bid too low"
  /\ pixels # <<>>
  /\ last.pi = NoIntent

\* C21: the webhook answers 400 exactly when the signature is missing or
\* invalid; every event whose signature verifies is acknowledged with
\* {received: true}, also when the settlement is dropped (bulk payment, other
\* event type) or when the storage write fails.
C21_VerifiedEventAcknowledged ==
  [][\A i \in 1..MaxQuotes, type \in EventTypes, sig \in Sigs, dbOk \in BOOLEAN :
        Webhook(i, type, sig, dbOk)
          => /\ last'.status = (IF sig = "ok" THEN 200 ELSE 400)
             /\ sig = "ok" /\ type = "payment_intent.succeeded"
                  => intents'[i].delivered]_vars

\* C21 witness: payment_intent.succeeded of a single-cell payment has been
\* acknowledged although the cell was not written, the storage write having
\* failed.
C21_Witness ==
  /\ last.kind = "webhook" /\ last.status = 200
  /\ last.event = "payment_intent.succeeded"
  /\ last.pi \in DOMAIN intents
  /\ ~intents[last.pi].bulk
  /\ ~Exists(last.cell)

\* C22: once every handler has responded and every message is delivered, a
\* viewer that hydrated before the first settlement and kept its socket open
\* holds, for every stored cell, the color that is stored for it.
C22_ViewerConverges ==
  reqs = EmptyBag =>
    \A c \in DOMAIN pixels : ViewerColor(c) = pixels[c].color

\* C23: a step that creates a cell stores a price of at least the floor
\* price minPrice, whichever handler takes it.
C23_CreatedAtFloor ==
  [][\A c \in DOMAIN pixels' :
        c \notin DOMAIN pixels => pixels'[c].price >= minPrice]_vars

\* C24: every stored cell has isSecured = TRUE exactly when its
\* securityExpiresAt is set.
C24_SecuredIffExpirySet ==
  \A c \in DOMAIN pixels :
    pixels[c].isSecured <=> pixels[c].securityExpiresAt # NullDate

\* C25: POST /api/pixels and the bulk quote treat a cell as protected exactly
\* when isSecured is true and securityExpiresAt is strictly later than the
\* current time: a request for such a cell is refused, and from the moment
\* now >= securityExpiresAt a purchase at the minimum bid is accepted, no
\* step having cleared the flag.
C25_LazyExpiry ==
  [][/\ (/\ last'.kind = "postPixel" /\ nreq' = nreq + 1
         /\ Exists(last'.cell))
          => LET row == pixels[last'.cell] IN
             IF row.isSecured /\ row.securityExpiresAt # NullDate
                              /\ row.securityExpiresAt > now
             THEN last'.status = 400
             ELSE (last'.price >= row.price + minPrice /\ last'.pi = NoIntent)
                    => last'.status = 0
     /\ \A b \in BulkBodies :
          (/\ Len(b.pixels) = 1 /\ b.ownerId # ""
           /\ CreateBulkPaymentIntent(b.pixels, b.totalAmount, b.ownerId,
                                      NameOf(b.ownerId), TRUE))
            => LET c == b.pixels[1].cell IN
               (last'.message = "Pixel is secured")
                 <=> /\ c[1] # 0 /\ Exists(c)
                     /\ pixels[c].isSecured /\ pixels[c].securityExpiresAt # NullDate
                     /\ pixels[c].securityExpiresAt > now]_vars

\* C25 witness: POST /api/pixels has accepted a bid for a cell whose
\* isSecured flag is still set and whose securityExpiresAt is the current
\* time.
C25_Witness ==
  /\ last.kind = "postPixel" /\ last.status = 0
  /\ Exists(last.cell)
  /\ pixels[last.cell].isSecured
  /\ pixels[last.cell].securityExpiresAt = now
  /\ \E r \in BagToSet(reqs) :
        r.pc = "findOrCreate" /\ r.cell = last.cell /\ r.ownerId # pixels[last.cell].ownerId

\* C26: GET /api/pixels/free-count/:browserId answers 200 with the number of
\* cells stored with ownerId = browserId and price 0, for every browserId.
C26_FreeCountAnswered ==
  [][\A o \in Owners :
        Get(<<"free-count", o>>)
          => /\ last'.status = 200
             /\ last'.body = Cardinality({c \in DOMAIN pixels :
                                            pixels[c].ownerId = o /\ pixels[c].price = 0})]_vars

\* C27: no step deletes a cell, and every stored cell has a non-empty
\* ownerId.
C27_CellsStayOwned ==
  [][/\ \A c \in DOMAIN pixels : c \in DOMAIN pixels'
     /\ \A c \in DOMAIN pixels' : pixels'[c].ownerId # ""]_vars

\* C28: the history is append-only: every step leaves the rows written so
\* far unchanged and in place, so the history before a step is a prefix of
\* the history after it.
C28_HistoryAppendOnly ==
  [][/\ Len(history') >= Len(history)
     /\ \A k \in DOMAIN history : history'[k] = history[k]]_vars

\* C28 witness: the history holds two rows, the later one written by a step
\* that found the earlier one in place.
C28_Witness ==
  /\ Len(history) >= 2
  /\ last.kind = "postPixelH"

C30_ConfirmationAfterWebhook ==
  [][\A b \in PostBodies, pi \in 1..MaxQuotes :
        /\ PostPixel(b.cell, b.price, b.ownerId, b.withSecurity, pi)
        /\ pi \in DOMAIN intents
        /\ ~intents[pi].bulk /\ intents[pi].status = "succeeded"
        /\ intents[pi].delivered
        /\ intents[pi].cell = b.cell /\ intents[pi].ownerId = b.ownerId
        /\ intents[pi].amount = ToCents(b.price)
        /\ Exists(b.cell)
        /\ pixels[b.cell].ownerId = b.ownerId /\ pixels[b.cell].price = b.price
        => last'.status = 0]_vars

\* C31: when the succeeded event of a single-cell payment is delivered with a
\* valid signature while no other settlement is being handled and the storage
\* write succeeds, the cell of the quote is afterwards stored with the quote's
\* owner at the charged amount.
C31_AcceptedQuoteSettles ==
  [][\A i \in 1..MaxQuotes :
        /\ Webhook(i, "payment_intent.succeeded", "ok", TRUE)
        /\ ~intents[i].bulk
        /\ reqs = EmptyBag
        => /\ intents[i].cell \in DOMAIN pixels'
           /\ pixels'[intents[i].cell].ownerId = intents[i].ownerId
           /\ pixels'[intents[i].cell].price = FromCents(intents[i].amount)]_vars

\* C32: once a POST /api/pixels request that named a payment intent has
\* written its cell, the write of another request that names the same payment
\* intent changes no cell.
C32_IntentUsedOnce ==
  [][\A r \in BagToSet(reqs) :
        /\ PostFindOrCreate(r)
        /\ r.pi # NoIntent
        /\ \E q \in BagToSet(reqs) :
              q.kind = r.kind /\ q.pi = r.pi /\ q.pc = "broadcast"
        => pixels' = pixels]_vars

\* C33: the bulk quote answers 'Invalid pixel data' only when a proposed pixel
\* lacks its color or its price (every proposed pixel of the model carries
\* both coordinates; a coordinate 0 is the number 0, not an absent field).
C33_BulkAcceptsZeroCoordinate ==
  [][\A b \in BulkBodies, stripeOk \in BOOLEAN :
        /\ CreateBulkPaymentIntent(b.pixels, b.totalAmount, b.ownerId,
                                   NameOf(b.ownerId), stripeOk)
        /\ last'.message = "Invalid pixel data"
        => \E k \in DOMAIN b.pixels : b.pixels[k].color = "" \/ b.pixels[k].price = 0]_vars

\* C34: when every per-cell price of the request the BulkPaymentForm submits
\* passes the server's per-pixel check, the server does not answer
\* 'Total amount mismatch', with and without the security option.
C34_FormTotalAccepted ==
  [][\A sel \in Selections, ws \in BOOLEAN :
        /\ BulkHandleSubmit(sel, ws)
        /\ \A k \in 1..Len(sel) : ~BulkPixelRejected(FormPixels(sel, ws)[k])
        => last'.message # "Total amount mismatch"]_vars

\* C35: reconnectAttempts never exceeds maxReconnectAttempts; the pending
\* timeout of the k-th consecutive attempt is 1000 * 2^(k-1) ms; and while the
\* socket is open the counter is 0 and the delay 1000 ms.
C35_ReconnectBackoff ==
  /\ reconnectAttempts \in 0..maxReconnectAttempts
  /\ timer # 0 => /\ reconnectAttempts >= 1
                  /\ timer = 1000 * 2^(reconnectAttempts - 1)
  /\ socket = "OPEN" => reconnectAttempts = 0 /\ reconnectTimeout = 1000

\* C35 witness: the fifth consecutive attempt is scheduled, 16 s after the close.
C35_Witness ==
  /\ reconnectAttempts = maxReconnectAttempts
  /\ timer = 16000
  /\ socket = "CLOSED"

\* C36: once disconnect() has been called, no step creates a new socket.
C36_NoSocketAfterDisconnect ==
  [][disconnected /\ socket' = "CONNECTING" => socket = "CONNECTING"]_vars

\* C37: at most one of the promises getConfig created is pending or fulfilled
\* (a request is never issued while another is pending or has succeeded), and
\* all callers that received a configuration received the same object.
C37_OneConfigRequest ==
  /\ Cardinality({n \in DOMAIN promises : promises[n].state # "rejected"}) <= 1
  /\ \A c, d \in Callers :
        callers[c].pc = "done" /\ callers[d].pc = "done"
          => callers[c].value = callers[d].value

\* C37 witness: the three callers called getConfig while the request was
\* pending and each has received the configuration.
C37_Witness ==
  /\ \A c \in Callers : callers[c].pc = "done"
  /\ Len(promises) = 1

\* C38: a getConfig call made after the configuration request has failed
\* issues a new request.
C38_RetryAfterFailure ==
  [][\A c \in Callers :
        /\ GetConfig(c)
        /\ config = 0 /\ configPromise # 0
        /\ promises[configPromise].state = "rejected"
        => Len(promises') = Len(promises) + 1]_vars

\* C39: a step of PUT /api/pixels/:x/:y/link leaves the history and the set
\* of stored cells unchanged and changes no field other than the link of the
\* cell it names; for an absent cell it responds 404 and changes nothing.
C39_LinkOnly ==
  [][last'.kind = "putLink" =>
       /\ history' = history
       /\ DOMAIN pixels' = DOMAIN pixels
       /\ \A c \in DOMAIN pixels :
             /\ [pixels'[c] EXCEPT !.link = NoLink] = [pixels[c] EXCEPT !.link = NoLink]
             /\ c # last'.cell => pixels'[c] = pixels[c]
       /\ last'.cell \notin DOMAIN pixels => last'.status = 404 /\ pixels' = pixels]_vars

\* C39 witness: the link route has saved a new link in a cell that another
\* buyer bought while the route was waiting, and the history holds a row.
C39_Witness ==
  /\ last.kind = "putLink" /\ last.status = 200
  /\ pixels[last.cell].link = "edited"
  /\ pixels[last.cell].ownerId = "b"
  /\ Len(history) >= 1

====
